---- MODULE Spec2Model ----
(***************************************************************************)
(* A model of the azureblob driver (blob/azureblob/azureblob.go): the      *)
(* streaming writer with its background upload task, the Copy poll loop,   *)
(* NewRangeReader, ListPaged, SignedURL, ErrorCode, key escaping and       *)
(* NewTypedWriter.  Each component has its own specification (SpecWriter,  *)
(* FairSpecWriter, SpecCopy, SpecReader, SpecList, SpecSign, SpecErr,      *)
(* SpecEsc, SpecMeta); all of them share the variables declared below, and *)
(* a specification leaves the variables of the other components at fixed   *)
(* values.                                                                 *)
(***************************************************************************)
EXTENDS Integers, Sequences, FiniteSets, TLC

VARIABLES
    \* ---- writer (type writer, azureblob.go:843-851) and its caller
    w_w,        \* w.w: FALSE while nil, TRUE once the io.PipeWriter exists
    w_donec,    \* w.donec: TRUE once close(w.donec) has run
    w_err,      \* w.err
    wpc,        \* caller: "idle", "writing" (inside w.w.Write), "closing", "closed"
    upc,        \* upload goroutine: "none", "running", "returned", "exiting", "done"
    body,       \* body handed to UploadStream: "none", "NoBody", "pipe"
    pending,    \* bytes of the current Write the pipe has not handed over yet
    nacc,       \* bytes of the current Write the reader has taken
    plen,       \* len(p) of the current (or last) Write
    pwClosed,   \* the pipe's write side was closed (w.w.Close())
    prErr,      \* error the pipe's read side was closed with, "nil" if open
    uploaded,   \* bytes UploadStream has read from its body, in order
    blob,       \* the object at the key: Absent or Object(content)
    nUploads,   \* number of upload goroutines started
    nWrites,    \* number of Write calls made
    nextByte,   \* id of the next byte the caller writes
    writeRet,   \* what the last Write returned: [n, err], or NoRet
    closeRet,   \* the error Close returned ("nil" for nil), or "none"
    ctxDone,    \* the writer's / caller's context is cancelled (ctx.Err() != nil)
    \* ---- bucket.Copy (azureblob.go:466-515) and the backend's copy
    cpc,        \* Copy: "idle", "poll" (in the poll loop), "done", "panic"
    copyStatus, \* the local copyStatus, "none" before StartCopyFromURL returns
    nErrors,    \* the local nErrors
    nPolls,     \* GetProperties calls made by the poll loop
    copyRet,    \* what Copy returned: "none", "nil" or an error
    backendStatus, \* the destination's copy status at the backend
    \* ---- bucket.NewRangeReader (azureblob.go:554-594) and type reader
    rpc,        \* "idle", "open" (a reader was returned), "closed", "failed", "panic"
    roffset,    \* the offset argument
    rlength,    \* the length argument
    rresp,      \* the bytes of the download response's range
    rbody,      \* reader.body: the bytes it has still to yield
    rread,      \* the bytes Read has yielded
    rEOF,       \* Read has returned io.EOF
    bodyCalls,  \* calls of blobDownloadResponse.Body
    readerRet,  \* the error NewRangeReader returned, "nil", or "none"
    \* ---- bucket.ListPaged (azureblob.go:714-797), its caller and the container
    lblobs,     \* the names of the blobs in the container
    lopts,      \* the caller's ListOptions: [Prefix, Delimiter, PageSize]
    ltoken,     \* the PageToken of the caller's next call
    lpc,        \* the caller: "listing", "finished", "failed"
    lsent,      \* the options the last call gave the backend
    lresp,      \* the backend's last response: [prefixes, items, NextMarker]
    lpage,      \* the last page ListPaged returned
    lret,       \* the last error ListPaged returned, "nil", or "none"
    lkeys,      \* all objects of the pages returned so far, in order
    \* ---- bucket.SignedURL (azureblob.go:800-841)
    spc,        \* "idle", "done"
    sopts,      \* SignedURLOptions: [Method, ContentType, EnforceAbsentContentType,
                \* BeforeSign ("none": nil, "ok", "fail": what the hook returns)]
    senv,       \* what the SDK does: [clientErr (NewBlobClient fails), sasErr
                \* (GetSASToken fails)]
    surl,       \* the URL SignedURL returned
    sret,       \* the error SignedURL returned
    sperms,     \* perms when it was last built
    sasCalls,   \* calls of GetSASToken
    signHookCalls, \* calls of opts.BeforeSign
    \* ---- bucket.ErrorCode (azureblob.go:645-670)
    eerr,       \* the error to classify
    ecode,      \* the code ErrorCode returned, "none" before the call
    \* ---- escapeKey / unescapeKey (azureblob.go:853-880)
    epc,        \* "idle", "escaped", "done"
    ekey,       \* the key given to escapeKey
    eIsPrefix,  \* its isPrefix argument
    eEscaped,   \* what escapeKey returned
    eUnescaped, \* what unescapeKey returned for eEscaped
    \* ---- bucket.NewTypedWriter (azureblob.go:883-949)
    mpc,        \* "idle", "done"
    mopts,      \* WriterOptions: [Metadata (its keys), BufferSize, MaxConcurrency,
                \* BeforeWrite ("none": nil, "ok", "fail")]
    menv,       \* [clientErr]: NewBlockBlobClient fails
    mret,       \* the error NewTypedWriter returned
    mwriter,    \* whether it returned a writer
    muploadOpts \* the writer's uploadOpts

writerVars == <<w_w, w_donec, w_err, wpc, upc, body, pending, nacc, plen, pwClosed,
                prErr, uploaded, blob, nUploads, nWrites, nextByte, writeRet,
                closeRet>>

copyVars == <<cpc, copyStatus, nErrors, nPolls, copyRet, backendStatus>>

readerVars == <<rpc, roffset, rlength, rresp, rbody, rread, rEOF, bodyCalls,
                readerRet>>

listVars == <<lblobs, lopts, ltoken, lpc, lsent, lresp, lpage, lret, lkeys>>

signVars == <<spc, sopts, senv, surl, sret, sperms, sasCalls, signHookCalls>>

errVars == <<eerr, ecode>>

escVars == <<epc, ekey, eIsPrefix, eEscaped, eUnescaped>>

metaVars == <<mpc, mopts, menv, mret, mwriter, muploadOpts>>

vars == <<writerVars, ctxDone, copyVars, readerVars, listVars, signVars, errVars,
          escVars, metaVars>>

\* What the actions of one component leave unchanged.
notWriter == <<copyVars, readerVars, listVars, signVars, errVars, escVars, metaVars>>
notCopy == <<writerVars, readerVars, listVars, signVars, errVars, escVars, metaVars>>
notReader == <<writerVars, copyVars, listVars, signVars, errVars, escVars, metaVars>>
notList == <<writerVars, copyVars, readerVars, signVars, errVars, escVars, metaVars>>
notSign == <<writerVars, copyVars, readerVars, listVars, errVars, escVars, metaVars>>
notErr == <<writerVars, copyVars, readerVars, listVars, signVars, escVars, metaVars>>
notEsc == <<writerVars, copyVars, readerVars, listVars, signVars, errVars, metaVars>>
notMeta == <<writerVars, copyVars, readerVars, listVars, signVars, errVars, escVars>>

NoErr == "nil"
NoRet == [n |-> 0, err |-> "none"]            \* a call that has not returned
Absent == [exists |-> FALSE, data |-> <<>>]   \* no object at the key
Object(d) == [exists |-> TRUE, data |-> d]    \* an object with content d
UploadErr == "upload failed"
CtxErr == "context canceled"

\* ---- bounds of the model
MaxWrites == 2      \* Write calls per writer
MaxWriteLen == 2    \* len(p) of one Write
MaxPolls == 5       \* status checks of one Copy
BlobLen == 3        \* size of the object NewRangeReader reads
MaxPageSize == 2    \* largest PageSize a caller of ListPaged asks for
MaxKeyLen == 3      \* code points of a key given to escapeKey

--------------------------------------------------------------------------
(* Strings and key escaping.  A string is a sequence of code points; Go     *)
(* compares strings byte-wise over UTF-8, which orders them as their code  *)
(* point sequences are ordered.                                            *)

Slash == 47
Dot == 46
Backslash == 92
Underscore == 95
Digit0 == 48
LowerX == 120
FirstPrintable == 32
Delete == 127
ReplacementChar == 65533    \* what string(rune) yields for an invalid rune
MaxInt32 == 2147483647
MaxRune == 1114111

\* The number of bytes of code point c in UTF-8.
Utf8Len(c) == IF c < 128 THEN 1 ELSE IF c < 2048 THEN 2 ELSE IF c < 65536 THEN 3 ELSE 4

\* len(s) of a Go string: its length in bytes.
RECURSIVE ByteLen(_)
ByteLen(s) == IF s = <<>> THEN 0 ELSE Utf8Len(Head(s)) + ByteLen(Tail(s))

\* s < t for Go strings.
RECURSIVE StrLess(_, _)
StrLess(s, t) ==
    IF t = <<>> THEN FALSE
    ELSE IF s = <<>> THEN TRUE
    ELSE IF Head(s) # Head(t) THEN Head(s) < Head(t)
    ELSE StrLess(Tail(s), Tail(t))

HasPrefix(s, p) == Len(p) <= Len(s) /\ SubSeq(s, 1, Len(p)) = p

\* The lower-case hexadecimal digits of n as code points ("%x").
HexDigit(d) == IF d < 10 THEN Digit0 + d ELSE 87 + d
RECURSIVE Hex(_)
Hex(n) == IF n < 16 THEN <<HexDigit(n)>> ELSE Hex(n \div 16) \o <<HexDigit(n % 16)>>

\* The value of hexadecimal digit c, -1 if c is none.
HexValue(c) ==
    IF c >= 48 /\ c <= 57 THEN c - 48
    ELSE IF c >= 97 /\ c <= 102 THEN c - 87
    ELSE IF c >= 65 /\ c <= 70 THEN c - 55
    ELSE -1

\* The value of the digit string ds, -1 if it is empty, holds a character
\* that is no hexadecimal digit, or exceeds 32 bits.
RECURSIVE ParseHexFrom(_, _)
ParseHexFrom(ds, acc) ==
    IF ds = <<>> THEN acc
    ELSE IF HexValue(Head(ds)) < 0 THEN -1
    ELSE IF acc * 16 + HexValue(Head(ds)) > MaxInt32 THEN -1
    ELSE ParseHexFrom(Tail(ds), acc * 16 + HexValue(Head(ds)))
ParseHex(ds) == IF ds = <<>> THEN -1 ELSE ParseHexFrom(ds, 0)

\* "__0x<hex>__" for code point c.
Marker(c) == <<Underscore, Underscore, Digit0, LowerX>> \o Hex(c) \o <<Underscore, Underscore>>

\* escape.HexEscape: every code point of s that shouldEscape selects
\* (toEscape[i], the outcome of its first pass over s) becomes its marker.
RECURSIVE Concat(_)
Concat(parts) == IF parts = <<>> THEN <<>> ELSE Head(parts) \o Concat(Tail(parts))
HexEscape(s, toEscape) ==
    Concat([i \in 1..Len(s) |-> IF toEscape[i] THEN Marker(s[i]) ELSE <<s[i]>>])

\* The index of the first Underscore of r at or after i, Len(r) + 1 if none.
RECURSIVE NextUnderscore(_, _)
NextUnderscore(r, i) ==
    IF i > Len(r) THEN i
    ELSE IF r[i] = Underscore THEN i
    ELSE NextUnderscore(r, i + 1)

Plus == 43
Minus == 45
SurrogateMin == 55296
SurrogateMax == 57343

\* string(rune(v)): a value that is no valid code point becomes U+FFFD.
RuneOf(v) ==
    IF v < 0 \/ v > MaxRune \/ (v >= SurrogateMin /\ v <= SurrogateMax)
      THEN ReplacementChar ELSE v

\* strconv.ParseInt(ds, 16, 32): [ok, val]; a sign may precede the digits.
ParseInt16(ds) ==
    LET signed == ds # <<>> /\ Head(ds) \in {Plus, Minus}
        digits == IF signed THEN Tail(ds) ELSE ds
        v == ParseHex(digits)
    IN  IF v < 0 THEN [ok |-> FALSE, val |-> 0]
        ELSE IF signed /\ Head(ds) = Minus THEN [ok |-> TRUE, val |-> 0 - v]
        ELSE [ok |-> TRUE, val |-> v]

\* escape.unescape: whether a marker starts at r[i]; then `last` is the index
\* of its last code point and `rune` the code point it stands for.
Unescape(r, i) ==
    LET j == NextUnderscore(r, i + 4)
        v == ParseInt16(SubSeq(r, i + 4, j - 1))
    IN  IF /\ i + 3 <= Len(r)
           /\ SubSeq(r, i, i + 3) = <<Underscore, Underscore, Digit0, LowerX>>
           /\ j + 1 <= Len(r)
           /\ r[j] = Underscore /\ r[j + 1] = Underscore
           /\ v.ok
          THEN [ok |-> TRUE, rune |-> RuneOf(v.val), last |-> j + 1]
          ELSE [ok |-> FALSE, rune |-> 0, last |-> i]

\* escape.HexUnescape: every marker becomes its code point, everything else
\* is kept.
RECURSIVE HexUnescapeFrom(_, _)
HexUnescapeFrom(r, i) ==
    IF i > Len(r) THEN <<>>
    ELSE LET u == Unescape(r, i)
         IN  IF u.ok THEN <<u.rune>> \o HexUnescapeFrom(r, u.last + 1)
             ELSE <<r[i]>> \o HexUnescapeFrom(r, i + 1)
HexUnescape(s) == HexUnescapeFrom(s, 1)

\* The function escapeKey hands to HexEscape: whether code point i (counted
\* from 1) of r is escaped.  len(key) is the key's length in bytes.
shouldEscapeKey(r, i, isPrefix) ==
    LET c == r[i]
    IN  \/ c = Backslash
        \/ c < FirstPrintable \/ c = Delete
        \/ ~isPrefix /\ i - 1 = ByteLen(r) - 1 /\ c = Slash
        \/ i - 1 > 1 /\ r[i] = Slash /\ r[i - 1] = Dot /\ r[i - 2] = Dot

escapeKey(key, isPrefix) ==
    HexEscape(key, [i \in 1..Len(key) |-> shouldEscapeKey(key, i, isPrefix)])

unescapeKey(key) == HexUnescape(key)

--------------------------------------------------------------------------
(* bucket.Copy                                                             *)

CopyStatusTypePending == "pending"
CopyStatusTypeSuccess == "success"
CopyStatusTypeFailed == "failed"
CopyStatusTypeAborted == "aborted"
TerminalStatuses ==
    {CopyStatusTypeSuccess, CopyStatusTypeFailed, CopyStatusTypeAborted}

ClientErr == "NewBlobClient failed"
HookErr == "BeforeCopy failed"
StartCopyErr == "StartCopyFromURL failed"
GetPropertiesErr == "GetProperties failed"
\* fmt.Errorf("Copy failed with status: %s", copyStatus)
StatusErr(s) == [msg |-> "Copy failed with status", status |-> s]
Err(e) == [msg |-> e, status |-> "none"]
NilRet == [msg |-> "nil", status |-> "none"]
NoCopyRet == [msg |-> "none", status |-> "none"]

\* No Copy is in progress.
CopyIdle ==
    /\ cpc = "idle"
    /\ copyStatus = "none"
    /\ nErrors = 0
    /\ nPolls = 0
    /\ copyRet = NoCopyRet
    /\ backendStatus = "none"

\* Mutant of AfterLoop: only a Failed status is reported.
AfterLoop_OnlyFailed(s) ==
    IF s = CopyStatusTypeFailed THEN StatusErr(s) ELSE NilRet

\* Lines 511-514: Copy's result once the loop has ended with status s.
AfterLoop(s) ==
    IF s # CopyStatusTypeSuccess THEN StatusErr(s) ELSE NilRet

\* Copy leaves the loop test (line 497) with the local status s.
LoopTest(s) ==
    IF s = CopyStatusTypePending
      THEN cpc' = "poll" /\ copyRet' = NoCopyRet
      ELSE cpc' = "done" /\ copyRet' = AfterLoop(s)

\* Copy up to the first test of the loop: an error of NewBlobClient (for the
\* destination or the source), of the BeforeCopy hook or of StartCopyFromURL
\* is returned; otherwise the backend's answer is the first status.
CopyCall ==
    /\ cpc = "idle"
    /\ \/ /\ \E e \in {ClientErr, HookErr, StartCopyErr} :
               copyRet' = Err(e)
          /\ cpc' = "done"
          /\ UNCHANGED <<copyStatus, backendStatus>>
       \/ /\ ctxDone
          /\ copyRet' = Err(CtxErr)
          /\ cpc' = "done"
          /\ UNCHANGED <<copyStatus, backendStatus>>
       \/ /\ ~ctxDone
          /\ \E s \in {CopyStatusTypePending, CopyStatusTypeSuccess} :
               /\ backendStatus' = s
               /\ copyStatus' = s
               /\ LoopTest(s)
    /\ UNCHANGED <<nErrors, nPolls, ctxDone, notCopy>>

MaxPollErrors == 3

\* Mutant of GiveUp: the context is not consulted.
GiveUp_IgnoreContext(n) == n = MaxPollErrors

\* Line 505: whether a failed status check ends the copy, n being the
\* incremented nErrors.
GiveUp(n) == ctxDone \/ n = MaxPollErrors

\* One iteration of the loop in which GetProperties fails with e: line 504-507
\* return e when GiveUp; otherwise control reaches line 509, where
\* propertiesResp is the zero response GetProperties returns with an error,
\* its CopyStatus is nil, and the dereference panics.
PollFailed(e) ==
    /\ nErrors' = nErrors + 1
    /\ IF GiveUp(nErrors + 1)
         THEN cpc' = "done" /\ copyRet' = Err(e)
         ELSE cpc' = "panic" /\ copyRet' = NoCopyRet
    /\ UNCHANGED copyStatus

\* One iteration in which GetProperties answers: line 509 and the loop test.
PollAnswered ==
    /\ copyStatus' = backendStatus
    /\ LoopTest(backendStatus)
    /\ UNCHANGED nErrors

\* One iteration of the poll loop (lines 497-510).  A request made with a
\* cancelled context fails with the context's error; any request may fail.
CopyPoll ==
    /\ cpc = "poll"
    /\ nPolls < MaxPolls
    /\ nPolls' = nPolls + 1
    /\ \/ ctxDone /\ PollFailed(CtxErr)
       \/ ~ctxDone /\ PollFailed(GetPropertiesErr)
       \/ ~ctxDone /\ PollAnswered
    /\ UNCHANGED <<backendStatus, ctxDone, notCopy>>

\* The backend's copy ends.
BackendProgress ==
    /\ backendStatus = CopyStatusTypePending
    /\ backendStatus' \in TerminalStatuses
    /\ UNCHANGED <<cpc, copyStatus, nErrors, nPolls, copyRet, ctxDone, notCopy>>

\* The caller's context is cancelled.
CopyCancel ==
    /\ ~ctxDone
    /\ cpc # "done"
    /\ ctxDone' = TRUE
    /\ UNCHANGED <<copyVars, notCopy>>

NextCopy == CopyCall \/ CopyPoll \/ BackendProgress \/ CopyCancel

--------------------------------------------------------------------------
(* The writer                                                              *)

WriterInit ==
    /\ w_w = FALSE
    /\ w_donec = FALSE
    /\ w_err = NoErr
    /\ wpc = "idle"
    /\ upc = "none"
    /\ body = "none"
    /\ pending = <<>>
    /\ nacc = 0
    /\ plen = 0
    /\ pwClosed = FALSE
    /\ prErr = NoErr
    /\ uploaded = <<>>
    /\ blob \in {Absent, Object(<<0>>)}
    /\ nUploads = 0
    /\ nWrites = 0
    /\ nextByte = 1
    /\ writeRet = NoRet
    /\ closeRet = "none"

\* The bytes of a Write of length l: fresh byte ids, in order.
Payload(l) == [i \in 1..l |-> nextByte + i - 1]

\* w.open: starts the upload goroutine over body b ("NoBody" when pr == nil).
open(b) ==
    /\ upc' = "running"
    /\ body' = b
    /\ nUploads' = nUploads + 1

\* writer.Write with len(p) == 0: returns (0, nil) and touches nothing.
WriteEmpty ==
    /\ wpc = "idle"
    /\ nWrites < MaxWrites
    /\ nWrites' = nWrites + 1
    /\ writeRet' = [n |-> 0, err |-> NoErr]
    /\ plen' = 0
    /\ UNCHANGED <<w_w, w_donec, w_err, wpc, upc, body, pending, nacc, pwClosed,
                   prErr, uploaded, blob, nUploads, nextByte, closeRet, ctxDone, notWriter>>

\* Mutant of WriteCall: every non-empty Write creates a pipe and starts an
\* upload.
WriteCall_AlwaysOpen ==
    /\ wpc = "idle"
    /\ nWrites < MaxWrites
    /\ \E l \in 1..MaxWriteLen :
         /\ pending' = Payload(l)
         /\ plen' = l
         /\ nextByte' = nextByte + l
    /\ nWrites' = nWrites + 1
    /\ w_w' = TRUE /\ open("pipe")
    /\ nacc' = 0
    /\ wpc' = "writing"
    /\ writeRet' = NoRet
    /\ UNCHANGED <<w_donec, w_err, pwClosed, prErr, uploaded, blob, closeRet,
                   ctxDone, notWriter>>

\* writer.Write with len(p) > 0: creates the pipe and starts the upload on the
\* first such call, then enters w.w.Write(p).
WriteCall ==
    /\ wpc = "idle"
    /\ nWrites < MaxWrites
    /\ \E l \in 1..MaxWriteLen :
         /\ pending' = Payload(l)
         /\ plen' = l
         /\ nextByte' = nextByte + l
    /\ nWrites' = nWrites + 1
    /\ IF w_w = FALSE
         THEN w_w' = TRUE /\ open("pipe")
         ELSE UNCHANGED <<w_w, upc, body, nUploads>>
    /\ nacc' = 0
    /\ wpc' = "writing"
    /\ writeRet' = NoRet
    /\ UNCHANGED <<w_donec, w_err, pwClosed, prErr, uploaded, blob, closeRet,
                   ctxDone, notWriter>>

\* Mutant of PipeWriteResult: the read side's error is dropped.
PipeWriteResult_DropError ==
    IF pending = <<>> \/ prErr # NoErr THEN [n |-> nacc, err |-> NoErr]
    ELSE NoRet

\* Mutant of PipeWriteResult: a buffered pipe, whose Write returns at once.
PipeWriteResult_Buffered ==
    IF prErr # NoErr THEN [n |-> nacc, err |-> prErr]
    ELSE [n |-> plen, err |-> NoErr]

\* What io.PipeWriter.Write returns next, or NoRet while it blocks: all of p
\* was taken -> (len(p), nil); the read side was closed -> (n, its error).
PipeWriteResult ==
    IF pending = <<>> THEN [n |-> nacc, err |-> NoErr]
    ELSE IF prErr # NoErr THEN [n |-> nacc, err |-> prErr]
    ELSE NoRet

\* w.w.Write(p) returns, and writer.Write returns its result.
WriteReturn ==
    /\ wpc = "writing"
    /\ PipeWriteResult # NoRet
    /\ writeRet' = PipeWriteResult
    /\ pending' = <<>>
    /\ wpc' = "idle"
    /\ UNCHANGED <<w_w, w_donec, w_err, upc, body, nacc, plen, pwClosed, prErr,
                   uploaded, blob, nUploads, nWrites, nextByte, closeRet, ctxDone, notWriter>>

\* Mutant of CloseStart: an untouched writer starts no upload.
CloseStart_NoEmptyUpload ==
    IF w_w = FALSE
      THEN UNCHANGED <<pwClosed, upc, body, nUploads>>
      ELSE pwClosed' = TRUE /\ UNCHANGED <<upc, body, nUploads>>

\* writer.Close up to its wait on donec: with w.w == nil it starts the upload
\* of an empty body, otherwise it closes the pipe's write side.
CloseStart ==
    IF w_w = FALSE
      THEN open("NoBody") /\ UNCHANGED pwClosed
      ELSE pwClosed' = TRUE /\ UNCHANGED <<upc, body, nUploads>>

CloseCall ==
    /\ wpc = "idle"
    /\ CloseStart
    /\ wpc' = "closing"
    /\ UNCHANGED <<w_w, w_donec, w_err, pending, nacc, plen, prErr, uploaded, blob,
                   nWrites, nextByte, writeRet, closeRet, ctxDone, notWriter>>

\* Mutant of CloseMayReturn: Close does not wait for the upload goroutine.
CloseMayReturn_NoWait == TRUE

\* Whether Close may pass `<-w.donec`.
CloseMayReturn == w_donec

\* `<-w.donec; return w.err`
CloseReturn ==
    /\ wpc = "closing"
    /\ CloseMayReturn
    /\ closeRet' = w_err
    /\ wpc' = "closed"
    /\ UNCHANGED <<w_w, w_donec, w_err, upc, body, pending, nacc, plen, pwClosed,
                   prErr, uploaded, blob, nUploads, nWrites, nextByte, writeRet,
                   ctxDone, notWriter>>

\* UploadStream reads k bytes from the pipe: the rendezvous with a blocked
\* w.w.Write.
UploadRead ==
    /\ upc = "running"
    /\ body = "pipe"
    /\ wpc = "writing"
    /\ pending # <<>>
    /\ prErr = NoErr
    /\ \E k \in 1..Len(pending) :
         /\ uploaded' = uploaded \o SubSeq(pending, 1, k)
         /\ pending' = SubSeq(pending, k + 1, Len(pending))
         /\ nacc' = nacc + k
    /\ UNCHANGED <<w_w, w_donec, w_err, wpc, upc, body, plen, pwClosed, prErr,
                   blob, nUploads, nWrites, nextByte, writeRet, closeRet, ctxDone, notWriter>>

\* UploadStream reaches the end of its body (at once for NoBody, after
\* w.w.Close() for the pipe), stores the object and returns nil.
UploadSucceed ==
    /\ upc = "running"
    /\ body = "NoBody" \/ (body = "pipe" /\ pwClosed)
    /\ ~ctxDone
    /\ blob' = Object(uploaded)
    /\ w_err' = NoErr
    /\ upc' = "returned"
    /\ UNCHANGED <<w_w, w_donec, wpc, body, pending, nacc, plen, pwClosed, prErr,
                   uploaded, nUploads, nWrites, nextByte, writeRet, closeRet,
                   ctxDone, notWriter>>

\* UploadStream returns an error (a backend failure, or the context's error
\* once the context is cancelled); the object is not stored.
UploadFail ==
    /\ upc = "running"
    /\ w_err' \in {UploadErr} \cup (IF ctxDone THEN {CtxErr} ELSE {})
    /\ upc' = "returned"
    /\ UNCHANGED <<w_w, w_donec, wpc, body, pending, nacc, plen, pwClosed, prErr,
                   uploaded, blob, nUploads, nWrites, nextByte, writeRet,
                   closeRet, ctxDone, notWriter>>

\* Mutant of ReadSideError: the goroutine never closes the read side.
ReadSideError_NeverClosed == prErr

\* After UploadStream: the error the goroutine closes the pipe's read side
\* with ("nil": it leaves the read side alone).
ReadSideError ==
    IF w_err # NoErr /\ body = "pipe" /\ prErr = NoErr THEN w_err ELSE prErr

UploadAfter ==
    /\ upc = "returned"
    /\ prErr' = ReadSideError
    /\ upc' = "exiting"
    /\ UNCHANGED <<w_w, w_donec, w_err, wpc, body, pending, nacc, plen, pwClosed,
                   uploaded, blob, nUploads, nWrites, nextByte, writeRet,
                   closeRet, ctxDone, notWriter>>

\* defer close(w.donec)
UploadDone ==
    /\ upc = "exiting"
    /\ w_donec' = TRUE
    /\ upc' = "done"
    /\ UNCHANGED <<w_w, w_err, wpc, body, pending, nacc, plen, pwClosed, prErr,
                   uploaded, blob, nUploads, nWrites, nextByte, writeRet,
                   closeRet, ctxDone, notWriter>>

\* The context given to NewTypedWriter is cancelled.
WriterCancel ==
    /\ ~ctxDone
    /\ wpc # "closed"
    /\ ctxDone' = TRUE
    /\ UNCHANGED <<writerVars, notWriter>>

NextWriter ==
    \/ WriteEmpty
    \/ WriteCall
    \/ WriteReturn
    \/ CloseCall
    \/ CloseReturn
    \/ UploadRead
    \/ UploadSucceed
    \/ UploadFail
    \/ UploadAfter
    \/ UploadDone
    \/ WriterCancel

--------------------------------------------------------------------------
(* bucket.NewRangeReader and the reader                                    *)

ReadHookErr == "BeforeRead failed"
DownloadErr == "Download failed"
InvalidRange == "InvalidRange"

\* The object NewRangeReader reads.
ReaderBlob == [i \in 1..BlobLen |-> i]

Min(a, b) == IF a < b THEN a ELSE b

ReaderIdle ==
    /\ rpc = "idle"
    /\ roffset = 0
    /\ rlength = 0
    /\ rresp = <<>>
    /\ rbody = <<>>
    /\ rread = <<>>
    /\ rEOF = FALSE
    /\ bodyCalls = 0
    /\ readerRet = "none"

\* Lines 558-561: the Count of the download options, 0 (the SDK's CountToEnd)
\* when it is left unset.
DownloadCount(length) == IF length >= 0 THEN length ELSE 0

\* The bytes of the range the backend answers a Download of (offset, count)
\* with: count bytes from offset, or all bytes from offset when count is 0.
DownloadRange(offset, count) ==
    SubSeq(ReaderBlob, offset + 1,
           IF count > 0 THEN Min(offset + count, BlobLen) ELSE BlobLen)

\* Mutant of NoBodyFor: no length short-circuits.
NoBodyFor_Never(length) == FALSE

\* Line 584: whether the reader gets http.NoBody instead of the response body.
NoBodyFor(length) == length = 0

\* NewRangeReader.  The error of NewBlobClient is overwritten at line 574
\* without having been looked at: when NewBlobClient fails the nil client is
\* used for Download, which panics.
NewRangeReader ==
    /\ rpc = "idle"
    /\ \E offset \in 0..BlobLen, length \in (0 - 1)..(BlobLen + 1) :
         /\ roffset' = offset
         /\ rlength' = length
         /\ \/ /\ rpc' = "failed"
               /\ readerRet' = ReadHookErr
               /\ UNCHANGED <<rresp, rbody, bodyCalls>>
            \/ /\ rpc' = "panic"
               /\ readerRet' = "none"
               /\ UNCHANGED <<rresp, rbody, bodyCalls>>
            \/ /\ rpc' = "failed"
               /\ readerRet' \in {DownloadErr} \cup (IF ctxDone THEN {CtxErr} ELSE {})
               /\ UNCHANGED <<rresp, rbody, bodyCalls>>
            \/ /\ offset > 0 /\ offset >= BlobLen
               /\ rpc' = "failed"
               /\ readerRet' = InvalidRange
               /\ UNCHANGED <<rresp, rbody, bodyCalls>>
            \/ /\ ~ctxDone
               /\ ~(offset > 0 /\ offset >= BlobLen)
               /\ rresp' = DownloadRange(offset, DownloadCount(length))
               /\ IF NoBodyFor(length)
                    THEN rbody' = <<>> /\ UNCHANGED bodyCalls
                    ELSE rbody' = rresp' /\ bodyCalls' = bodyCalls + 1
               /\ rpc' = "open"
               /\ readerRet' = NoErr
    /\ UNCHANGED <<rread, rEOF, ctxDone, notReader>>

\* reader.Read yields k bytes of the body.
ReaderRead ==
    /\ rpc = "open"
    /\ rbody # <<>>
    /\ \E k \in 1..Len(rbody) :
         /\ rread' = rread \o SubSeq(rbody, 1, k)
         /\ rbody' = SubSeq(rbody, k + 1, Len(rbody))
    /\ UNCHANGED <<rpc, roffset, rlength, rresp, rEOF, bodyCalls, readerRet,
                   ctxDone, notReader>>

\* reader.Read at the end of the body: (0, io.EOF).
ReaderReadEOF ==
    /\ rpc = "open"
    /\ rbody = <<>>
    /\ ~rEOF
    /\ rEOF' = TRUE
    /\ UNCHANGED <<rpc, roffset, rlength, rresp, rbody, rread, bodyCalls,
                   readerRet, ctxDone, notReader>>

\* reader.Close
ReaderClose ==
    /\ rpc = "open"
    /\ rpc' = "closed"
    /\ UNCHANGED <<roffset, rlength, rresp, rbody, rread, rEOF, bodyCalls,
                   readerRet, ctxDone, notReader>>

NextReader == NewRangeReader \/ ReaderRead \/ ReaderReadEOF \/ ReaderClose

--------------------------------------------------------------------------
(* bucket.ListPaged                                                        *)

defaultPageSize == 1000

ListHookErr == "BeforeList failed"
PagerErr == "ListBlobsHierarchy failed"

\* A *string: nil, or a pointer to val.
NilString == [set |-> FALSE, val |-> <<>>]
StringPtr(v) == [set |-> TRUE, val |-> v]

\* The keys blobs were written under: "a", "a/b", "a]", "a\b", "c/".
ListKeys == {<<97>>, <<97, 47, 98>>, <<97, 93>>, <<97, 92, 98>>, <<99, 47>>}
\* The prefixes a caller lists: "", "a", "a\".
ListPrefixes == {<<>>, <<97>>, <<97, 92>>}
\* The delimiters a caller lists with: "", "/".
ListDelimiters == {<<>>, <<Slash>>}

NoPage == [Objects |-> <<>>, NextPageToken |-> <<>>]
NoResp == [prefixes |-> <<>>, items |-> <<>>, NextMarker |-> NilString]
NoSent == [Marker |-> NilString, MaxResults |-> 0, Prefix |-> <<>>, Delimiter |-> <<>>]

\* A container holding some blobs, each written by this driver under an
\* escaped key; a caller about to list it from the start.
ListInit ==
    /\ \E ks \in SUBSET ListKeys : lblobs = {escapeKey(k, FALSE) : k \in ks}
    /\ lopts \in [Prefix : ListPrefixes, Delimiter : ListDelimiters,
                  PageSize : 0..MaxPageSize]
    /\ ltoken = <<>>
    /\ lpc = "listing"
    /\ lsent = NoSent
    /\ lresp = NoResp
    /\ lpage = NoPage
    /\ lret = "none"
    /\ lkeys = <<>>

\* Nobody lists.
ListIdle ==
    /\ lblobs = {}
    /\ lopts = [Prefix |-> <<>>, Delimiter |-> <<>>, PageSize |-> 0]
    /\ ltoken = <<>>
    /\ lpc = "finished"
    /\ lsent = NoSent
    /\ lresp = NoResp
    /\ lpage = NoPage
    /\ lret = "none"
    /\ lkeys = <<>>

\* ---- the backend's hierarchical listing

\* The entry blob `name` is listed as under (prefix, delim): the blob itself,
\* or the virtual directory up to the first delimiter after the prefix.
BackendEntry(name, prefix, delim) ==
    LET at == {i \in (Len(prefix) + 1)..(Len(name) - Len(delim) + 1) :
                   SubSeq(name, i, i + Len(delim) - 1) = delim}
        first == CHOOSE i \in at : \A j \in at : i <= j
    IN  IF delim = <<>> \/ at = {}
          THEN [Name |-> name, IsDir |-> FALSE]
          ELSE [Name |-> SubSeq(name, 1, first + Len(delim) - 1), IsDir |-> TRUE]

BackendEntries(prefix, delim) ==
    {BackendEntry(n, prefix, delim) : n \in {m \in lblobs : HasPrefix(m, prefix)}}

EntryLess(a, b) ==
    StrLess(a.Name, b.Name) \/ (a.Name = b.Name /\ a.IsDir /\ ~b.IsDir)

\* The entries of S in the backend's order.
RECURSIVE InOrder(_)
InOrder(S) ==
    IF S = {} THEN <<>>
    ELSE LET least == CHOOSE x \in S : \A y \in S : ~EntryLess(y, x)
         IN  <<least>> \o InOrder(S \ {least})

\* All orders the elements of the sequence q can be put in.
Orders(q) ==
    {[i \in 1..Len(q) |-> q[f[i]]] : f \in Permutations(1..Len(q))}

SelectDirs(q, dir) == SelectSeq(q, LAMBDA e : e.IsDir = dir)

\* The position a marker stands for: the backend's markers are <<position>>.
MarkerStart(marker) ==
    IF ~marker.set \/ marker.val = <<>> THEN 0 ELSE marker.val[1]

\* The responses the backend may give to one ListBlobsHierarchy page request:
\* at most MaxResults entries from the marker on, split into prefixes and
\* items, each group in any order; NextMarker is nil or "" at the end.
BackendResponses(sent) ==
    LET all == InOrder(BackendEntries(sent.Prefix, sent.Delimiter))
        start == MarkerStart(sent.Marker)
        stop == Min(start + sent.MaxResults, Len(all))
        slice == SubSeq(all, start + 1, stop)
        nexts == IF stop < Len(all) THEN {StringPtr(<<stop>>)}
                 ELSE {NilString, StringPtr(<<>>)}
    IN  {[prefixes |-> [i \in 1..Len(ps) |-> ps[i].Name],
          items |-> [i \in 1..Len(is) |-> is[i].Name],
          NextMarker |-> nm] :
            ps \in Orders(SelectDirs(slice, TRUE)),
            is \in Orders(SelectDirs(slice, FALSE)),
            nm \in nexts}

\* ---- the driver

\* Lines 715-718
PageSizeFor(pageSize) == IF pageSize = 0 THEN defaultPageSize ELSE pageSize

\* Mutant of MarkerFor: the page token is not handed on.
MarkerFor_Dropped(pageToken) == NilString

\* Lines 720-724
MarkerFor(pageToken) ==
    IF Len(pageToken) > 0 THEN StringPtr(pageToken) ELSE NilString

\* Lines 726-732 and 746: what the call asks of the backend.
Request(opts, pageToken) ==
    [Marker |-> MarkerFor(pageToken),
     MaxResults |-> PageSizeFor(opts.PageSize),
     Prefix |-> escapeKey(opts.Prefix, TRUE),
     Delimiter |-> escapeKey(opts.Delimiter, TRUE)]

\* Lines 755-787: the prefixes, then the items, under their unescaped keys.
Appended(resp) ==
    [i \in 1..Len(resp.prefixes) |->
        [Key |-> unescapeKey(resp.prefixes[i]), IsDir |-> TRUE]]
    \o [i \in 1..Len(resp.items) |->
        [Key |-> unescapeKey(resp.items[i]), IsDir |-> FALSE]]

\* Lines 788-790
NextPageTokenFor(nextMarker) == IF nextMarker.set THEN nextMarker.val ELSE <<>>

\* Mutant of NeedsSort: the page is never sorted.
NeedsSort_Never(resp) == FALSE

\* Line 791
NeedsSort(resp) == Len(resp.prefixes) > 0 /\ Len(resp.items) > 0

SortedByKey(objs) ==
    \A i \in 1..(Len(objs) - 1) : ~StrLess(objs[i + 1].Key, objs[i].Key)

\* Lines 791-795: sort.Slice is not stable, so objects with equal keys end up
\* in either order.
Sorted(objs) == {q \in Orders(objs) : SortedByKey(q)}

\* The Objects the call may return for the backend's response.
ObjectsFor(resp) ==
    IF NeedsSort(resp) THEN Sorted(Appended(resp)) ELSE {Appended(resp)}

\* One call of ListPaged with the caller's current token; the caller keeps
\* the page and goes on with its NextPageToken.
ListPaged ==
    /\ lpc = "listing"
    /\ \/ /\ lret' = ListHookErr
          /\ lpc' = "failed"
          /\ UNCHANGED <<lsent, lresp, lpage, lkeys, ltoken>>
       \/ /\ lsent' = Request(lopts, ltoken)
          /\ lret' \in {PagerErr} \cup (IF ctxDone THEN {CtxErr} ELSE {})
          /\ lpc' = "failed"
          /\ UNCHANGED <<lresp, lpage, lkeys, ltoken>>
       \/ /\ ~ctxDone
          /\ lsent' = Request(lopts, ltoken)
          /\ lresp' \in BackendResponses(lsent')
          /\ \E objs \in ObjectsFor(lresp') :
               lpage' = [Objects |-> objs,
                         NextPageToken |-> NextPageTokenFor(lresp'.NextMarker)]
          /\ lret' = NoErr
          /\ lkeys' = lkeys \o lpage'.Objects
          /\ ltoken' = lpage'.NextPageToken
          /\ lpc' = IF lpage'.NextPageToken = <<>> THEN "finished" ELSE "listing"
    /\ UNCHANGED <<lblobs, lopts, ctxDone, notList>>

NextList == ListPaged

--------------------------------------------------------------------------
(* Errors and bucket.ErrorCode                                             *)

\* An error value: what errors.As finds in it (type "storage": a
\* *azblob.StorageError with code and status; "response": an
\* *azcore.ResponseError with rcode and rstatus; "both": a StorageError
\* wrapping a ResponseError; "gcerr": a *gcerr.Error with code gc; "plain":
\* none of them) and its text.  Type "nil" is the nil error.
ErrRec(type, gc, code, status, rcode, rstatus, text) ==
    [type |-> type, gc |-> gc, code |-> code, status |-> status,
     rcode |-> rcode, rstatus |-> rstatus, text |-> text]
NilError == ErrRec("nil", "", "", 0, "", 0, "")
\* errors.New / fmt.Errorf
PlainError(text) == ErrRec("plain", "", "", 0, "", 0, text)
\* gcerr.New(code, nil, 1, text)
GcError(code, text) == ErrRec("gcerr", code, "", 0, "", 0, text)

StorageErrorCodeBlobNotFound == "BlobNotFound"
StorageErrorCodeAuthenticationFailed == "AuthenticationFailed"
StatusNotFound == 404

\* strings.Contains(err.Error(), "no such host") over the texts of the model.
HostLookupText == "dial tcp: lookup invalidstorageaccount.blob.core.windows.net: no such host"
ContainsNoSuchHost(text) == text \in {HostLookupText}

\* Mutant of StructuredCode: the authentication code is looked at first.
StructuredCode_AuthFirst(errorCode, statusCode) ==
    IF errorCode = StorageErrorCodeAuthenticationFailed THEN "PermissionDenied"
    ELSE IF errorCode = StorageErrorCodeBlobNotFound \/ statusCode = StatusNotFound
      THEN "NotFound"
    ELSE "Unknown"

\* Lines 663-669
StructuredCode(errorCode, statusCode) ==
    IF errorCode = StorageErrorCodeBlobNotFound \/ statusCode = StatusNotFound
      THEN "NotFound"
    ELSE IF errorCode = StorageErrorCodeAuthenticationFailed THEN "PermissionDenied"
    ELSE "Unknown"

\* bucket.ErrorCode
ErrorCode(err) ==
    IF err.type \in {"storage", "both"} THEN StructuredCode(err.code, err.status)
    ELSE IF err.type = "response" THEN StructuredCode(err.rcode, err.rstatus)
    ELSE IF ContainsNoSuchHost(err.text) THEN "NotFound"
    ELSE "Unknown"

\* The errors ErrorCode is given in the model.
ErrorCodes == {StorageErrorCodeBlobNotFound, StorageErrorCodeAuthenticationFailed,
               "ContainerNotFound"}
StatusCodes == {StatusNotFound, 403, 500}
ErrorTexts == {HostLookupText, "error"}
ErrorValues ==
    {PlainError(t) : t \in ErrorTexts}
    \cup {GcError("Unimplemented", t) : t \in ErrorTexts}
    \cup {ErrRec("storage", "", c, st, "", 0, t) :
            c \in ErrorCodes, st \in StatusCodes, t \in ErrorTexts}
    \cup {ErrRec("response", "", "", 0, c, st, t) :
            c \in ErrorCodes, st \in StatusCodes, t \in ErrorTexts}
    \cup {ErrRec("both", "", c, st, rc, rst, t) :
            c \in ErrorCodes, st \in StatusCodes, rc \in ErrorCodes,
            rst \in StatusCodes, t \in ErrorTexts}

ErrIdle == eerr = NilError /\ ecode = "none"

ErrInit == eerr \in ErrorValues /\ ecode = "none"

\* A call of b.ErrorCode(eerr)
Classify ==
    /\ ecode = "none"
    /\ eerr # NilError
    /\ ecode' = ErrorCode(eerr)
    /\ UNCHANGED <<eerr, ctxDone, notErr>>

NextErr == Classify

--------------------------------------------------------------------------
(* bucket.SignedURL                                                        *)

MethodGet == "GET"
MethodPut == "PUT"
MethodDelete == "DELETE"
Methods == {MethodGet, MethodPut, MethodDelete, "PATCH", ""}

SignHookErr == "BeforeSign failed"
UnsupportedMethod == "unsupported Method"
NoContentTypeEnforcement == "azureblob: does not enforce Content-Type on PUT"

NoPerms == [Read |-> FALSE, Create |-> FALSE, Write |-> FALSE, Delete |-> FALSE]
NoURL == [blob |-> FALSE, sas |-> ""]

SignIdle ==
    /\ spc = "done"
    /\ sopts = [Method |-> MethodGet, ContentType |-> "",
                EnforceAbsentContentType |-> FALSE, BeforeSign |-> "none"]
    /\ senv = [clientErr |-> FALSE, sasErr |-> FALSE]
    /\ surl = NoURL
    /\ sret = NilError
    /\ sperms = NoPerms
    /\ sasCalls = 0
    /\ signHookCalls = 0

SignInit ==
    /\ spc = "idle"
    /\ sopts \in [Method : Methods, ContentType : {"", "text/plain"},
                  EnforceAbsentContentType : BOOLEAN,
                  BeforeSign : {"none", "ok", "fail"}]
    /\ senv \in [clientErr : BOOLEAN, sasErr : BOOLEAN]
    /\ surl = NoURL
    /\ sret = NilError
    /\ sperms = NoPerms
    /\ sasCalls = 0
    /\ signHookCalls = 0

\* Mutant of RejectsContentType: only a required Content-Type is refused.
RejectsContentType_OnlyRequired(opts) == opts.ContentType # ""

\* Line 801
RejectsContentType(opts) == opts.ContentType # "" \/ opts.EnforceAbsentContentType

\* Lines 811-822: the permissions of a supported method.
SupportedMethod(method) == method \in {MethodGet, MethodPut, MethodDelete}
PermsFor(method) ==
    [Read |-> method = MethodGet, Create |-> method = MethodPut,
     Write |-> method = MethodPut, Delete |-> method = MethodDelete]

\* Lines 838-840: the err of GetSASToken is assigned and never read; the URL
\* is built from whatever query parameters came back and returned with nil.
Signed(sasFails) ==
    /\ surl' = [blob |-> TRUE, sas |-> IF sasFails THEN "" ELSE "sas"]
    /\ sret' = NilError

\* SignedURL returns ("", e).
SignFails(e) == surl' = NoURL /\ sret' = e

SignedURL ==
    /\ spc = "idle"
    /\ spc' = "done"
    /\ IF RejectsContentType(sopts)
         THEN /\ SignFails(GcError("Unimplemented", NoContentTypeEnforcement))
              /\ UNCHANGED <<sperms, sasCalls, signHookCalls>>
       ELSE IF senv.clientErr
         THEN /\ SignFails(PlainError(ClientErr))
              /\ UNCHANGED <<sperms, sasCalls, signHookCalls>>
       ELSE IF ~SupportedMethod(sopts.Method)
         THEN /\ SignFails(PlainError(UnsupportedMethod))
              /\ UNCHANGED <<sperms, sasCalls, signHookCalls>>
       ELSE /\ sperms' = PermsFor(sopts.Method)
            /\ signHookCalls' = signHookCalls + (IF sopts.BeforeSign = "none" THEN 0 ELSE 1)
            /\ IF sopts.BeforeSign = "fail"
                 THEN SignFails(PlainError(SignHookErr)) /\ UNCHANGED sasCalls
                 ELSE sasCalls' = sasCalls + 1 /\ Signed(senv.sasErr)
    /\ UNCHANGED <<sopts, senv, ctxDone, notSign>>

NextSign == SignedURL

--------------------------------------------------------------------------
(* escapeKey followed by unescapeKey                                       *)

\* Code points of the keys: a letter, the characters escapeKey looks at, a
\* control character, and a two-byte code point (U+00E9).
KeyAlphabet == {97, Slash, Dot, Backslash, 10, 233}

\* Keys that hold the text of an escape marker.
MarkerKeys == {Marker(Slash), <<97>> \o Marker(Slash), Marker(97) \o <<Slash>>}

Keys == UNION {[1..n -> KeyAlphabet] : n \in 0..MaxKeyLen} \cup MarkerKeys

EscIdle ==
    /\ epc = "done" /\ ekey = <<>> /\ eIsPrefix = FALSE
    /\ eEscaped = <<>> /\ eUnescaped = <<>>

EscInit ==
    /\ epc = "idle" /\ ekey \in Keys /\ eIsPrefix \in BOOLEAN
    /\ eEscaped = <<>> /\ eUnescaped = <<>>

\* A call of escapeKey(ekey, eIsPrefix)
EscapeKeyCall ==
    /\ epc = "idle"
    /\ epc' = "escaped"
    /\ eEscaped' = escapeKey(ekey, eIsPrefix)
    /\ UNCHANGED <<ekey, eIsPrefix, eUnescaped, ctxDone, notEsc>>

\* A call of unescapeKey on the escaped key
UnescapeKeyCall ==
    /\ epc = "escaped"
    /\ epc' = "done"
    /\ eUnescaped' = unescapeKey(eEscaped)
    /\ UNCHANGED <<ekey, eIsPrefix, eEscaped, ctxDone, notEsc>>

NextEsc == EscapeKeyCall \/ UnescapeKeyCall

--------------------------------------------------------------------------
(* bucket.NewTypedWriter                                                   *)

defaultUploadBuffers == 5
defaultUploadBlockSize == 8 * 1024 * 1024

WriteHookErr == "BeforeWrite failed"
DuplicateKeys == "duplicate keys after escaping"

\* escape.IsASCIIAlphanumeric
IsASCIIAlphanumeric(c) ==
    \/ c >= 97 /\ c <= 122
    \/ c >= 65 /\ c <= 90
    \/ c >= Digit0 /\ c <= 57

\* Lines 898-909: the function NewTypedWriter hands to HexEscape for a
\* metadata key (i counted from 1).
shouldEscapeMetadataKey(runes, i) ==
    LET c == runes[i]
    IN  IF i = 1 /\ c >= Digit0 /\ c <= 57 THEN TRUE
        ELSE IF IsASCIIAlphanumeric(c) THEN FALSE
        ELSE IF c = Underscore THEN FALSE
        ELSE TRUE

escapeMetadataKey(k) ==
    HexEscape(k, [i \in 1..Len(k) |-> shouldEscapeMetadataKey(k, i)])

\* Lines 897-916: the loop returns the error in whichever order the map is
\* ranged over, as the second of two keys with the same escaped key finds
\* the first one in md.
HasDuplicate(metadata) ==
    \E k1, k2 \in metadata : k1 # k2 /\ escapeMetadataKey(k1) = escapeMetadataKey(k2)

\* The metadata keys of the model: "a", "-", "__0x2d__", "1", "__0x31__",
\* "_", "1a".
MetadataKeys ==
    {<<97>>, <<Minus>>, Marker(Minus), <<49>>, Marker(49), <<Underscore>>, <<49, 97>>}

NoUploadOpts == [BufferSize |-> 0, MaxBuffers |-> 0, Metadata |-> {}]

MetaIdle ==
    /\ mpc = "done"
    /\ mopts = [Metadata |-> {}, BufferSize |-> 0, MaxConcurrency |-> 0,
                BeforeWrite |-> "none"]
    /\ menv = [clientErr |-> FALSE]
    /\ mret = NilError
    /\ mwriter = FALSE
    /\ muploadOpts = NoUploadOpts

MetaInit ==
    /\ mpc = "idle"
    /\ mopts \in [Metadata : SUBSET MetadataKeys, BufferSize : {0, 4},
                  MaxConcurrency : {0, 2}, BeforeWrite : {"none", "ok", "fail"}]
    /\ menv \in [clientErr : BOOLEAN]
    /\ mret = NilError
    /\ mwriter = FALSE
    /\ muploadOpts = NoUploadOpts

\* NewTypedWriter returns (nil, e).
NoWriter(e) == mret' = e /\ mwriter' = FALSE /\ muploadOpts' = NoUploadOpts

NewTypedWriter ==
    /\ mpc = "idle"
    /\ mpc' = "done"
    /\ IF menv.clientErr THEN NoWriter(PlainError(ClientErr))
       ELSE IF HasDuplicate(mopts.Metadata) THEN NoWriter(PlainError(DuplicateKeys))
       ELSE IF mopts.BeforeWrite = "fail" THEN NoWriter(PlainError(WriteHookErr))
       ELSE /\ mret' = NilError
            /\ mwriter' = TRUE
            /\ muploadOpts' =
                 [BufferSize |-> IF mopts.BufferSize = 0 THEN defaultUploadBlockSize
                                 ELSE mopts.BufferSize,
                  MaxBuffers |-> IF mopts.MaxConcurrency = 0 THEN defaultUploadBuffers
                                 ELSE mopts.MaxConcurrency,
                  Metadata |-> {escapeMetadataKey(k) : k \in mopts.Metadata}]
    /\ UNCHANGED <<mopts, menv, ctxDone, notMeta>>

NextMeta == NewTypedWriter

--------------------------------------------------------------------------
(* Specifications                                                          *)

\* A writer nobody uses.
WriterIdle == WriterInit /\ blob = Absent

\* The components added to the model after the first four are idle.
OthersIdle == SignIdle /\ ErrIdle /\ EscIdle /\ MetaIdle

InitWriter ==
    WriterInit /\ ctxDone = FALSE /\ CopyIdle /\ ReaderIdle /\ ListIdle /\ OthersIdle

SpecWriter == InitWriter /\ [][NextWriter]_vars

\* The Go scheduler runs every goroutine that is not blocked: the upload
\* goroutine's steps after UploadStream returned, and the caller's return from
\* a pipe Write that can return.
FairSpecWriter ==
    /\ SpecWriter
    /\ WF_vars(UploadAfter)
    /\ WF_vars(UploadDone)
    /\ WF_vars(WriteReturn)

InitCopy ==
    CopyIdle /\ ctxDone = FALSE /\ WriterIdle /\ ReaderIdle /\ ListIdle /\ OthersIdle

SpecCopy == InitCopy /\ [][NextCopy]_vars

InitReader ==
    /\ ReaderIdle /\ ctxDone \in BOOLEAN /\ WriterIdle /\ CopyIdle /\ ListIdle
    /\ OthersIdle

SpecReader == InitReader /\ [][NextReader]_vars

InitList ==
    /\ ListInit /\ ctxDone \in BOOLEAN /\ WriterIdle /\ CopyIdle /\ ReaderIdle
    /\ OthersIdle

SpecList == InitList /\ [][NextList]_vars

\* The four components above, idle.
FirstIdle == WriterIdle /\ ctxDone = FALSE /\ CopyIdle /\ ReaderIdle /\ ListIdle

InitSign == SignInit /\ FirstIdle /\ ErrIdle /\ EscIdle /\ MetaIdle

SpecSign == InitSign /\ [][NextSign]_vars

InitErr == ErrInit /\ FirstIdle /\ SignIdle /\ EscIdle /\ MetaIdle

SpecErr == InitErr /\ [][NextErr]_vars

InitEsc == EscInit /\ FirstIdle /\ SignIdle /\ ErrIdle /\ MetaIdle

SpecEsc == InitEsc /\ [][NextEsc]_vars

InitMeta == MetaInit /\ FirstIdle /\ SignIdle /\ ErrIdle /\ EscIdle

SpecMeta == InitMeta /\ [][NextMeta]_vars

--------------------------------------------------------------------------
(* Claims about the writer                                                 *)

\* C1: when Close is called on a writer that saw no non-empty Write, exactly
\* one upload is started and its body is empty; Close returns only after that
\* upload finished, with the upload's result; after a nil result the object
\* at the key is a zero-byte object.
C1_CloseUntouchedCreatesEmpty ==
    /\ (wpc \in {"closing", "closed"} /\ ~w_w) => (nUploads = 1 /\ body = "NoBody")
    /\ (wpc = "closed" /\ ~w_w) =>
          /\ upc = "done"
          /\ closeRet = w_err
          /\ closeRet = NoErr => blob = Object(<<>>)

C1_Witness ==
    /\ wpc = "closed" /\ ~w_w /\ nWrites > 0
    /\ closeRet = NoErr /\ blob = Object(<<>>)

\* C2: when Close is called after a non-empty Write, the pipe's write side is
\* closed and Close returns only once the upload goroutine is done; what it
\* returns is the error (or nil) UploadStream produced.
C2_CloseWaitsForUpload ==
    (wpc = "closed" /\ w_w) =>
        /\ pwClosed
        /\ upc = "done"
        /\ nUploads = 1
        /\ closeRet = w_err
        /\ closeRet = NoErr <=> blob = Object(uploaded)

C2_Witness == wpc = "closed" /\ w_w /\ closeRet = UploadErr /\ nWrites = 2

\* C3: the upload goroutine closes the pipe's read side with the upload error
\* before it signals completion, and a Write that is blocked in the pipe, or
\* enters it, after the upload failed returns.
C3_FailedUploadUnblocksWrite ==
    /\ [](( w_donec /\ w_err # NoErr /\ body = "pipe") => prErr = w_err)
    /\ ((wpc = "writing" /\ upc \in {"returned", "exiting", "done"} /\ w_err # NoErr)
          ~> (wpc # "writing"))

C3_Witness ==
    /\ wpc = "writing" /\ pending # <<>> /\ upc = "done"
    /\ prErr = CtxErr /\ nWrites = 2

\* C4 as claimed: every Write returns (len(p), nil).
C4_WriteNeverFails ==
    (wpc # "writing" /\ nWrites > 0) => writeRet = [n |-> plen, err |-> NoErr]

\* C4 amended: a Write made before Close returns (len(p), nil) unless the
\* upload has failed; in that case it returns the upload's error with the
\* number of bytes the upload had taken (fewer than len(p)), and Close
\* returns that error too.
C4_WriteFailsOnlyWithUpload ==
    /\ (wpc # "writing" /\ nWrites > 0) =>
          \/ writeRet = [n |-> plen, err |-> NoErr]
          \/ /\ writeRet.err = w_err /\ w_err # NoErr
             /\ writeRet.n < plen
    /\ (wpc = "closed" /\ nWrites > 0 /\ writeRet # NoRet /\ writeRet.err # NoErr) =>
          closeRet = writeRet.err

C4_Witness ==
    /\ wpc = "closed" /\ writeRet = [n |-> 1, err |-> UploadErr] /\ plen = 2
    /\ closeRet = UploadErr

--------------------------------------------------------------------------
(* Claims about Copy                                                       *)

\* C5: Copy polls while the status it last observed is Pending; it returns
\* nil when that status is Success and an error naming the status when it is
\* Failed or Aborted.
C5_CopyResultFollowsStatus ==
    /\ cpc = "poll" => (copyStatus = CopyStatusTypePending /\ copyRet = NoCopyRet)
    /\ (cpc = "done" /\ copyStatus = CopyStatusTypeSuccess) => copyRet = NilRet
    /\ (cpc = "done" /\ copyStatus \in {CopyStatusTypeFailed, CopyStatusTypeAborted}) =>
          copyRet = StatusErr(copyStatus)
    /\ (cpc = "done" /\ copyRet = NilRet) => copyStatus = CopyStatusTypeSuccess

\* Pending three times (the initiating call and two status checks), then
\* Success.
C5_Witness ==
    /\ cpc = "done" /\ nPolls = 3 /\ copyRet = NilRet /\ nErrors = 0

\* C6 as claimed: with the context not cancelled, a failed status check that
\* is not the third one does not end the copy: polling continues.
C6_PollErrorsTolerated ==
    [][(cpc = "poll" /\ ~ctxDone /\ nErrors' = nErrors + 1 /\ nErrors' < MaxPollErrors)
         => cpc' = "poll"]_vars

\* C7: a status check made once the context is cancelled ends the poll loop:
\* Copy returns the cancellation error, whatever the backend's status is.
C7_CancelAbortsPoll ==
    [][(cpc = "poll" /\ ctxDone /\ nPolls' # nPolls)
         => (cpc' = "done" /\ copyRet' = Err(CtxErr))]_vars

C7_Witness ==
    /\ cpc = "done" /\ copyRet = Err(CtxErr) /\ nPolls = 2
    /\ backendStatus = CopyStatusTypeSuccess /\ copyStatus = CopyStatusTypePending

--------------------------------------------------------------------------
(* Claims about NewRangeReader                                             *)

\* C8: a reader NewRangeReader returned for length 0 yields no bytes, and
\* the download response's Body was not called for it; a reader returned for
\* any other length yields the bytes of the backend's response body.
C8_ZeroLengthHasNoBody ==
    rpc \in {"open", "closed"} =>
        /\ rlength = 0 => (bodyCalls = 0 /\ rread = <<>> /\ rbody = <<>>)
        /\ rlength # 0 => (bodyCalls = 1 /\ rread \o rbody = rresp)

C8_Witness ==
    /\ rpc = "closed" /\ rlength = 0 /\ roffset = 1 /\ rEOF
    /\ rread = <<>> /\ Len(rresp) = 2 /\ bodyCalls = 0

--------------------------------------------------------------------------
(* Claims about ListPaged                                                  *)

\* The objects the backend's last response stands for.
RespObjects == {Appended(lresp)[i] : i \in 1..Len(Appended(lresp))}
PageObjects == {lpage.Objects[i] : i \in 1..Len(lpage.Objects)}

\* C9: a page whose backend segment held both a prefix and an item has its
\* Objects, the segment's entries, in ascending order of unescaped key; a
\* page whose segment was empty is returned without error and has no Objects.
C9_MixedPageSorted ==
    lret = NoErr =>
        /\ (Len(lresp.prefixes) > 0 /\ Len(lresp.items) > 0) =>
              /\ SortedByKey(lpage.Objects)
              /\ PageObjects = RespObjects
              /\ Len(lpage.Objects) = Len(lresp.prefixes) + Len(lresp.items)
        /\ (Len(lresp.prefixes) = 0 /\ Len(lresp.items) = 0) =>
              lpage.Objects = <<>>

\* The segment's prefixes followed by its items are not in key order, and
\* the backend handed the items over in descending order.
C9_Witness ==
    /\ lret = NoErr
    /\ Len(lresp.prefixes) > 0 /\ Len(lresp.items) > 1
    /\ ~SortedByKey(Appended(lresp))
    /\ StrLess(lresp.items[2], lresp.items[1])
    /\ SortedByKey(lpage.Objects)

\* Every object a full listing with the caller's options has to show.
Expected ==
    {[Key |-> unescapeKey(e.Name), IsDir |-> e.IsDir] :
        e \in BackendEntries(escapeKey(lopts.Prefix, TRUE),
                             escapeKey(lopts.Delimiter, TRUE))}

\* C10: NextPageToken is empty exactly when the backend reported no further
\* page (a nil or empty NextMarker), and is the backend's NextMarker
\* otherwise; the first call sends no marker and every later call sends the
\* token of the page before it (the backend's marker for the number of
\* entries listed so far); and a listing followed from the empty token to an
\* empty NextPageToken has shown every matching object exactly once.
C10_TokenProtocol ==
    /\ lret = NoErr =>
          (lpage.NextPageToken = <<>> <=>
              (~lresp.NextMarker.set \/ lresp.NextMarker.val = <<>>))
    /\ lret = NoErr => lpage.NextPageToken = lresp.NextMarker.val
    /\ lret = NoErr =>
          lsent.Marker = IF Len(lkeys) = Len(lpage.Objects) THEN NilString
                         ELSE StringPtr(<<Len(lkeys) - Len(lpage.Objects)>>)
    /\ lpc = "finished" =>
          /\ {lkeys[i] : i \in 1..Len(lkeys)} = Expected
          /\ Len(lkeys) = Cardinality(Expected)

\* A listing of three pages.
C10_Witness ==
    /\ lpc = "finished" /\ Len(lkeys) = 5 /\ lsent.Marker = StringPtr(<<4>>)
    /\ lopts.PageSize = 2

--------------------------------------------------------------------------
(* Claims about the writer's upload goroutine                              *)

\* C17: over a writer's lifetime exactly one upload goroutine is started: by
\* the first non-empty Write (over the pipe), and by Close (over an empty
\* body) only when no non-empty Write happened; empty Writes, later Writes
\* and a Close after a non-empty Write start none.
C17_OneUploadPerWriter ==
    /\ nUploads <= 1
    /\ nextByte > 1 => (nUploads = 1 /\ body = "pipe")
    /\ (nextByte = 1 /\ wpc = "idle") => (nUploads = 0 /\ body = "none")
    /\ wpc \in {"closing", "closed"} =>
          (nUploads = 1 /\ (body = "NoBody" <=> nextByte = 1))

C17_Witness ==
    /\ wpc = "closed" /\ nUploads = 1 /\ body = "pipe"
    /\ nWrites = 2 /\ uploaded = <<1, 2, 3>>

\* C18: a non-empty Write returns nil only when the upload has taken every
\* byte written so far, and an error only when the pipe's read side was
\* closed with one; no byte is held anywhere but in the blocked Write's p;
\* the upload sees the bytes in the order they were written.
C18_WriteRendezvous ==
    /\ uploaded = [i \in 1..Len(uploaded) |-> i]
    /\ (wpc # "writing" /\ plen > 0 /\ writeRet.err = NoErr) =>
          (writeRet.n = plen /\ Len(uploaded) = nextByte - 1)
    /\ (wpc # "writing" /\ plen > 0 /\ writeRet.err # NoErr) =>
          (prErr # NoErr /\ writeRet.err = prErr)
    /\ (wpc = "writing" /\ prErr = NoErr) =>
          uploaded \o pending = [i \in 1..(nextByte - 1) |-> i]
    /\ wpc # "writing" => pending = <<>>

C18_Witness ==
    /\ wpc = "idle" /\ nWrites = 2 /\ plen = 2
    /\ writeRet = [n |-> 2, err |-> NoErr] /\ uploaded = <<1, 2, 3>>

--------------------------------------------------------------------------
(* Claims about SignedURL and ErrorCode                                    *)

\* C11 as claimed: SignedURL with a method other than GET, PUT, DELETE (and
\* no Content-Type request) returns an error that ErrorCode classifies as
\* InvalidArgument, without a call of BeforeSign or GetSASToken.
C11_UnsupportedMethodInvalidArgument ==
    (spc = "done" /\ ~SupportedMethod(sopts.Method) /\ ~RejectsContentType(sopts)) =>
        /\ sret # NilError /\ surl = NoURL
        /\ ErrorCode(sret) = "InvalidArgument"
        /\ sasCalls = 0 /\ signHookCalls = 0

\* C12: SignedURL asked for a Content-Type, or for its absence, returns a
\* gcerr Unimplemented error and the empty URL whatever the method is, and
\* neither BeforeSign nor GetSASToken is called.
C12_ContentTypeUnimplemented ==
    (spc = "done" /\ (sopts.ContentType # "" \/ sopts.EnforceAbsentContentType)) =>
        /\ sret.type = "gcerr" /\ sret.gc = "Unimplemented"
        /\ surl = NoURL
        /\ sasCalls = 0 /\ signHookCalls = 0 /\ sperms = NoPerms

C12_Witness ==
    /\ spc = "done" /\ sopts.EnforceAbsentContentType /\ sopts.ContentType = ""
    /\ sopts.Method = "PATCH" /\ sopts.BeforeSign = "ok"
    /\ sret.gc = "Unimplemented"

\* What errors.As finds first in eerr: its StorageError, else its
\* ResponseError.
C13_Structured == eerr.type \in {"storage", "response", "both"}
C13_Code == IF eerr.type = "response" THEN eerr.rcode ELSE eerr.code
C13_Status == IF eerr.type = "response" THEN eerr.rstatus ELSE eerr.status

\* C13: ErrorCode's classification by priority.
C13_ErrorCodePriority ==
    ecode # "none" =>
        ecode = IF C13_Structured /\ (C13_Code = "BlobNotFound" \/ C13_Status = 404)
                  THEN "NotFound"
                ELSE IF C13_Structured /\ C13_Code = "AuthenticationFailed"
                  THEN "PermissionDenied"
                ELSE IF ~C13_Structured /\ eerr.text = HostLookupText
                  THEN "NotFound"
                ELSE "Unknown"

\* An authentication failure answered with 404 is NotFound.
C13_Witness ==
    /\ ecode = "NotFound" /\ eerr.type = "both"
    /\ eerr.code = "AuthenticationFailed" /\ eerr.status = 404
    /\ eerr.rcode = "ContainerNotFound" /\ eerr.rstatus = 500

\* C16 as claimed, for SignedURL: when a step of the operation returned an
\* error (NewBlobClient, BeforeSign, GetSASToken), SignedURL returns an error
\* and no URL.
C16_NoErrorSwallowed ==
    (spc = "done" /\ (senv.clientErr \/ sopts.BeforeSign = "fail"
                       \/ (sasCalls > 0 /\ senv.sasErr))
       /\ ~RejectsContentType(sopts) /\ SupportedMethod(sopts.Method)) =>
        (sret # NilError /\ surl = NoURL)

--------------------------------------------------------------------------
(* Claims about key escaping and NewTypedWriter                            *)

\* C14 as claimed: for every key, unescapeKey(escapeKey(key, false)) is the
\* key again, also when the key holds the text of an escape marker.
C14_EscapeRoundTrip ==
    (epc = "done" /\ ~eIsPrefix) => eUnescaped = ekey

\* C15 as claimed: NewTypedWriter given two metadata keys with the same
\* escaped key returns no writer and an error that ErrorCode classifies as
\* InvalidArgument, and starts no upload.
C15_DuplicateMetadataInvalidArgument ==
    (mpc = "done" /\ ~menv.clientErr /\ HasDuplicate(mopts.Metadata)) =>
        /\ mret # NilError /\ ~mwriter
        /\ ErrorCode(mret) = "InvalidArgument"
        /\ nUploads = 0 /\ upc = "none"

\* C19 as claimed: escapeKey of a full key ending in "/" does not end in "/",
\* whatever code points precede it; with isPrefix true a trailing "/" that
\* does not end "../" stays.
C19_TrailingSlashEscaped ==
    (epc # "idle" /\ ekey # <<>> /\ ekey[Len(ekey)] = Slash) =>
        IF ~eIsPrefix THEN eEscaped[Len(eEscaped)] # Slash
        ELSE (Len(ekey) >= 3 /\ ekey[Len(ekey) - 1] = Dot /\ ekey[Len(ekey) - 2] = Dot)
             \/ eEscaped[Len(eEscaped)] = Slash

====
